---------------------------- MODULE Spec2Model ----------------------------
(***************************************************************************)
(* Model of triton-vec-add.ipynb: the Triton kernel add_kernel, its        *)
(* launcher add(x, y) and the timing cell that calls add twice (warm-up    *)
(* and timed call), each call followed by torch.cuda.synchronize().        *)
(*                                                                         *)
(* Device memory is a map from buffer names to sequences.  Offsets are     *)
(* 0-based as in the kernel; the element at offset o of buffer b is        *)
(* mem[b][o + 1].  Every program instance (worker) of a launch runs its    *)
(* three memory steps (load x, load y, store) interleaved arbitrarily with *)
(* the other instances and with the host.                                  *)
(***************************************************************************)
EXTENDS Integers, Sequences, FiniteSets

\* ----------------------------------------------------------------- bounds
\* Longest input vector the model draws.
MaxN == 3
\* The model draws the kernel's BLOCK_SIZE from 2^0 .. 2^MaxExp (tl.arange
\* takes a power of two) and from the value add passes.
MaxExp == 1
\* Element values of the input vectors.
Values == {0, 1}

\* --------------------------------------------------------- program values
\* BLOCK_SIZE=1024, the meta-parameter add passes to add_kernel.
ADD_BLOCK_SIZE == 1024
\* N of the timing cell: torch.randn(100000, device='cuda').
HARNESS_N == 100000
\* Content of a location nobody has written yet: an element of the tensor
\* torch.empty_like returns, or a masked-off lane of tl.load.
UNDEF == -1

Buffers == {"x", "y", "out1", "out2"}

RECURSIVE Pow2(_)
Pow2(e) == IF e = 0 THEN 1 ELSE 2 * Pow2(e - 1)

BlockSizes == {Pow2(e) : e \in 0..MaxExp} \cup {ADD_BLOCK_SIZE}

VARIABLES
  mem,         \* device/host memory: buffer name -> sequence of elements
  is_cuda,     \* buffer name -> whether the tensor lives in CUDA memory
  BLOCK_SIZE,  \* the kernel's constexpr meta-parameter
  hpc,         \* position of the host (timing cell and add)
  call,        \* number of add calls begun: 1 = warm-up, 2 = timed call
  output,      \* add's local `output`: the buffer it allocated
  ret,         \* the timing cell's `output` (line 137), "none" before
  n_elements,  \* add's local n_elements
  kargs,       \* arguments of the last kernel launch
  workers,     \* pid -> [pc, x, y] for the program instances of the launch
  fault,       \* an illegal memory access has killed the kernel
  clock,       \* "idle", "running" (start taken), "stopped" (end taken)
  rlog,        \* <<pid, buffer, offset>> of every element load of this call
  wlog,        \* <<pid, buffer, offset>> of every element store of this call
  wcnt,        \* <<buffer, offset>> -> number of stores to it in this call
  x0, y0       \* the inputs as the caller created them

vars == <<mem, is_cuda, BLOCK_SIZE, hpc, call, output, ret, n_elements,
          kargs, workers, fault, clock, rlog, wlog, wcnt, x0, y0>>

\* ------------------------------------------------------------ pure pieces
\* Faulty variants of the definitions below, each a slip the code could hold.
\* Floor instead of ceiling division.
cdiv_floor(a, b) == a \div b
\* One instance too many.
cdiv_extra(a, b) == a \div b + 1

\* triton.cdiv(a, b)
cdiv(a, b) == (a + b - 1) \div b

\* The block size forgotten in the stride.
block_start_unit(pid, BS) == pid

\* block_start = pid * BLOCK_SIZE
block_start(pid, BS) == pid * BS

\* offsets = block_start + tl.arange(0, BLOCK_SIZE)
offsets(pid, BS) == [j \in 0..(BS - 1) |-> block_start(pid, BS) + j]

\* <= instead of <.
mask_le(offs, n) == [j \in DOMAIN offs |-> offs[j] <= n]

\* mask = offsets < n_elements
mask(offs, n) == [j \in DOMAIN offs |-> offs[j] < n]

\* An offset that lies inside buffer b.
InRange(b, o) == 0 <= o /\ o < Len(mem[b])

\* The offsets a masked access of buffer b touches outside the buffer.
OutOfRange(b, offs, m) == {offs[j] : j \in {i \in DOMAIN offs : m[i] /\ ~InRange(b, offs[i])}}

\* The element offsets a masked access touches.
Touched(offs, m) == {offs[j] : j \in {i \in DOMAIN offs : m[i]}}

\* tl.load(ptr + offsets, mask=mask): masked-off lanes are not read; a lane
\* outside the buffer reads whatever g holds for it.
load(b, offs, m, g) ==
  [j \in DOMAIN offs |->
      IF ~m[j] THEN UNDEF
      ELSE IF InRange(b, offs[j]) THEN mem[b][offs[j] + 1]
      ELSE g[offs[j]]]

\* x + x instead of x + y.
vadd_xx(xv, yv) ==
  [j \in DOMAIN xv |-> IF xv[j] = UNDEF \/ yv[j] = UNDEF THEN UNDEF ELSE xv[j] + xv[j]]

\* output = x + y, lane by lane (a lane that holds nothing stays so).
vadd(xv, yv) ==
  [j \in DOMAIN xv |-> IF xv[j] = UNDEF \/ yv[j] = UNDEF THEN UNDEF ELSE xv[j] + yv[j]]

\* The store aimed at the first input.
store_ptr_x(args) == args.x_ptr

\* The buffer tl.store writes: output_ptr.
store_ptr(args) == args.output_ptr

\* tl.store(ptr + offsets, val, mask=mask) on buffer content s: the lanes
\* the mask lets through and that lie inside the buffer are written.
store(s, offs, val, m) ==
  [i \in 1..Len(s) |->
      IF \E j \in DOMAIN offs : m[j] /\ offs[j] = i - 1
      THEN val[CHOOSE j \in DOMAIN offs : m[j] /\ offs[j] = i - 1]
      ELSE s[i]]

\* y.is_cuda left out of the assertion.
cuda_ok_no_y == is_cuda["x"] /\ is_cuda[output]

\* assert x.is_cuda and y.is_cuda and output.is_cuda
cuda_ok == is_cuda["x"] /\ is_cuda["y"] /\ is_cuda[output]

\* grid = lambda meta: (triton.cdiv(n_elements, meta['BLOCK_SIZE']),)
grid(n, BS) == cdiv(n, BS)

\* A barrier that does not wait.
DeviceIdle_nowait == TRUE

\* torch.cuda.synchronize() returns once every launched instance is done.
DeviceIdle == \A pid \in DOMAIN workers : workers[pid].pc = "done"

NoRegs == [j \in 0..(BLOCK_SIZE - 1) |-> UNDEF]

\* ------------------------------------------------------------------- Init
\* The lengths of y drawn for an x of length nx: equal, one shorter (the
\* kernel then reads y past its end) and one longer.
Lengths(nx) == {ny \in 0..MaxN : ny - nx \in {0 - 1, 0, 1}}

Init ==
  /\ \E nx \in 0..MaxN : \E ny \in Lengths(nx) :
       \E xs \in [1..nx -> Values], ys \in [1..ny -> Values] :
          /\ mem = [b \in Buffers |-> IF b = "x" THEN xs ELSE IF b = "y" THEN ys ELSE <<>>]
          /\ x0 = xs
          /\ y0 = ys
  /\ \E cx \in BOOLEAN, cy \in BOOLEAN :
       is_cuda = [b \in Buffers |-> IF b = "x" THEN cx ELSE IF b = "y" THEN cy ELSE FALSE]
  /\ BLOCK_SIZE \in BlockSizes
  /\ hpc = "call"
  /\ call = 0
  /\ output = "none"
  /\ ret = "none"
  /\ n_elements = 0
  /\ kargs = [x_ptr |-> "x", y_ptr |-> "y", output_ptr |-> "none", n_elements |-> 0]
  /\ workers = <<>>
  /\ fault = FALSE
  /\ clock = "idle"
  /\ rlog = {}
  /\ wlog = {}
  /\ wcnt = <<>>

\* ------------------------------------------------------------ host: add()
\* output = torch.empty_like(x): a fresh tensor, same length and device as x.
AddAlloc ==
  /\ hpc = "call"
  /\ call < 2
  /\ call' = call + 1
  /\ output' = IF call = 0 THEN "out1" ELSE "out2"
  /\ mem' = [mem EXCEPT ![output'] = [i \in 1..Len(mem["x"]) |-> UNDEF]]
  /\ is_cuda' = [is_cuda EXCEPT ![output'] = is_cuda["x"]]
  /\ hpc' = "assert"
  /\ rlog' = {}
  /\ wlog' = {}
  /\ wcnt' = <<>>
  /\ workers' = <<>>
  /\ UNCHANGED <<BLOCK_SIZE, ret, n_elements, kargs, fault, clock, x0, y0>>

\* assert x.is_cuda and y.is_cuda and output.is_cuda
AddAssert ==
  /\ hpc = "assert"
  /\ hpc' = IF cuda_ok THEN "launch" ELSE "assert_failed"
  /\ UNCHANGED <<mem, is_cuda, BLOCK_SIZE, call, output, ret, n_elements,
                 kargs, workers, fault, clock, rlog, wlog, wcnt, x0, y0>>

\* n_elements = output.numel(); add_kernel[grid](x, y, output, n_elements,
\* BLOCK_SIZE=...); return output.  The launch only enqueues the program
\* instances: add returns while they are still to run.  The timing cell
\* keeps the handle of the timed call and drops the warm-up's.
AddLaunch ==
  /\ hpc = "launch"
  /\ n_elements' = Len(mem[output])
  /\ kargs' = [x_ptr |-> "x", y_ptr |-> "y", output_ptr |-> output,
               n_elements |-> n_elements']
  /\ workers' = [pid \in 0..(grid(n_elements', BLOCK_SIZE) - 1) |->
                   [pc |-> "load_x", x |-> NoRegs, y |-> NoRegs]]
  /\ ret' = IF call = 2 THEN output ELSE ret
  /\ hpc' = "sync"
  /\ UNCHANGED <<mem, is_cuda, BLOCK_SIZE, call, output, fault, clock,
                 rlog, wlog, wcnt, x0, y0>>

\* ------------------------------------------------------ host: timing cell
\* torch.cuda.synchronize(): blocks until the device is idle; reports an
\* illegal memory access of the kernel as an error.
Synchronize ==
  /\ hpc = "sync"
  /\ \/ fault /\ hpc' = "cuda_error"
     \/ ~fault /\ DeviceIdle /\ hpc' = "synced"
  /\ UNCHANGED <<mem, is_cuda, BLOCK_SIZE, call, output, ret, n_elements,
                 kargs, workers, fault, clock, rlog, wlog, wcnt, x0, y0>>

\* start = time.time(), after the warm-up's synchronize
StartClock ==
  /\ hpc = "synced"
  /\ call = 1
  /\ clock' = "running"
  /\ hpc' = "call"
  /\ UNCHANGED <<mem, is_cuda, BLOCK_SIZE, call, output, ret, n_elements,
                 kargs, workers, fault, rlog, wlog, wcnt, x0, y0>>

\* end = time.time(), after the timed call's synchronize
StopClock ==
  /\ hpc = "synced"
  /\ call = 2
  /\ clock' = "stopped"
  /\ hpc' = "done"
  /\ UNCHANGED <<mem, is_cuda, BLOCK_SIZE, call, output, ret, n_elements,
                 kargs, workers, fault, rlog, wlog, wcnt, x0, y0>>

\* --------------------------------------------------- device: add_kernel
Offs(pid) == offsets(pid, BLOCK_SIZE)
Mask(pid) == mask(Offs(pid), kargs.n_elements)

\* A masked load of buffer b by instance pid into register reg.  A lane
\* outside b is undefined behaviour: it yields any value, or the access
\* is caught as illegal and kills the kernel.
LoadStep(pid, b, reg, next) ==
  LET offs == Offs(pid)
      m    == Mask(pid)
      oob  == OutOfRange(b, offs, m)
  IN  /\ rlog' = rlog \cup {<<pid, b, o>> : o \in Touched(offs, m)}
      /\ \/ /\ \E g \in [oob -> Values] :
                 workers' = [workers EXCEPT ![pid].pc = next,
                                            ![pid][reg] = load(b, offs, m, g)]
            /\ fault' = fault
         \/ /\ oob # {}
            /\ fault' = TRUE
            /\ workers' = [workers EXCEPT ![pid].pc = "killed"]
      /\ UNCHANGED <<mem, is_cuda, BLOCK_SIZE, hpc, call, output, ret,
                     n_elements, kargs, clock, wlog, wcnt, x0, y0>>

\* x = tl.load(x_ptr + offsets, mask=mask)
LoadX ==
  \E pid \in DOMAIN workers :
    /\ ~fault
    /\ workers[pid].pc = "load_x"
    /\ LoadStep(pid, kargs.x_ptr, "x", "load_y")

\* y = tl.load(y_ptr + offsets, mask=mask)
LoadY ==
  \E pid \in DOMAIN workers :
    /\ ~fault
    /\ workers[pid].pc = "load_y"
    /\ LoadStep(pid, kargs.y_ptr, "y", "store")

\* output = x + y; tl.store(output_ptr + offsets, output, mask=mask)
Store ==
  \E pid \in DOMAIN workers :
    /\ ~fault
    /\ workers[pid].pc = "store"
    /\ LET offs == Offs(pid)
           m    == Mask(pid)
           b    == store_ptr(kargs)
           val  == vadd(workers[pid].x, workers[pid].y)
           hit  == {<<b, o>> : o \in Touched(offs, m)}
       IN  /\ mem' = [mem EXCEPT ![b] = store(mem[b], offs, val, m)]
           /\ wlog' = wlog \cup {<<pid, b, o>> : o \in Touched(offs, m)}
           /\ wcnt' = [a \in (DOMAIN wcnt) \cup hit |->
                         (IF a \in DOMAIN wcnt THEN wcnt[a] ELSE 0)
                         + (IF a \in hit THEN 1 ELSE 0)]
           /\ workers' = [workers EXCEPT ![pid].pc = "done"]
    /\ UNCHANGED <<is_cuda, BLOCK_SIZE, hpc, call, output, ret, n_elements,
                   kargs, fault, clock, rlog, x0, y0>>

Next ==
  \/ AddAlloc
  \/ AddAssert
  \/ AddLaunch
  \/ Synchronize
  \/ StartClock
  \/ StopClock
  \/ LoadX
  \/ LoadY
  \/ Store

Spec == Init /\ [][Next]_vars

\* ============================================================== properties
N == Len(x0)
SameLength == Len(x0) = Len(y0)
OnCuda == is_cuda["x"] /\ is_cuda["y"]
\* torch.cuda.synchronize() has returned after the latest dispatch.
Synced == hpc \in {"synced", "done"}
\* add has dispatched the kernel and returned.
Dispatched == hpc \in {"sync", "synced", "done", "cuda_error"}
\* ceil(n / p), from its definition: the least k with k * p >= n.
Ceil(n, p) == CHOOSE k \in 0..n : k * p >= n /\ (k = 0 \/ (k - 1) * p < n)
\* The offsets of instance pid that pass the guard.
ValidRange(pid, n, BS) == Touched(offsets(pid, BS), mask(offsets(pid, BS), n))

\* C1: for x and y of the same length N, once add has dispatched and the
\* barrier has returned (all instances completed), the output has length N
\* and output[i] = x[i] + y[i] for every i in [0, N).
C1_ElementwiseSum ==
  (SameLength /\ Synced) =>
     /\ Len(mem[output]) = N
     /\ \A i \in 1..N : mem[output][i] = x0[i] + y0[i]

C1_Witness ==
  /\ hpc = "done"
  /\ BLOCK_SIZE = 2
  /\ x0 = <<1, 1, 0>>
  /\ y0 = <<0, 1, 1>>
  /\ mem["out2"] = <<1, 2, 1>>

\* C2: when x and y have the same length N, every element load and store
\* of instance pid is at an offset o of its own block [pid*P, pid*P + P)
\* with 0 <= o < N, also when the last block extends past N.
C2_InBounds ==
  SameLength =>
     \A a \in rlog \cup wlog :
        /\ 0 <= a[3] /\ a[3] < N
        /\ a[1] \in 0..(Ceil(N, BLOCK_SIZE) - 1)
        /\ a[1] * BLOCK_SIZE <= a[3] /\ a[3] < a[1] * BLOCK_SIZE + BLOCK_SIZE

C2_Witness ==
  /\ SameLength /\ N = 3 /\ BLOCK_SIZE = 2
  /\ 1 \in DOMAIN workers
  /\ workers[1].pc = "done"
  /\ <<1, "out2", 2>> \in wlog

\* C3 (as claimed): with len(x) # len(y) add fails before any instance is
\* dispatched: it never returns an output and y is never read past its end.
C3_MismatchFailsFast ==
  ~SameLength =>
     /\ ~Dispatched
     /\ DOMAIN workers = {}
     /\ ret = "none"
     /\ \A a \in rlog : a[2] = "y" => a[3] < Len(y0)

\* C4: if x or y is not in CUDA memory, add stops at its assertion: no
\* instance is ever dispatched, nothing is loaded or stored, and add never
\* returns an output.
C4_AssertCuda ==
  ~OnCuda =>
     /\ hpc \in {"call", "assert", "assert_failed"}
     /\ call <= 1
     /\ DOMAIN workers = {}
     /\ rlog = {} /\ wlog = {}
     /\ ret = "none"

C4_Witness ==
  /\ hpc = "assert_failed"
  /\ is_cuda["x"] /\ ~is_cuda["y"]
  /\ N = 2

\* C5: in every state where the barrier after a dispatch has returned,
\* every dispatched instance is done and every output index in [0, n) has
\* been written; the clock is stopped only in such a state.
C5_BarrierCompletes ==
  /\ Synced =>
       /\ \A pid \in DOMAIN workers : workers[pid].pc = "done"
       /\ Cardinality(DOMAIN workers) = Ceil(n_elements, BLOCK_SIZE)
       /\ \A i \in 1..n_elements : <<output, i - 1>> \in DOMAIN wcnt
  /\ clock = "stopped" => (Synced /\ call = 2 /\ ret = output)
  /\ clock = "running" => call >= 1

C5_Witness ==
  /\ clock = "stopped"
  /\ hpc = "done"
  /\ Cardinality(DOMAIN workers) = 3

\* C6 (as claimed): the timed call's output equals the warm-up call's, for
\* every interleaving, and no instance loads a location that another
\* instance stores.
C6_Deterministic ==
  /\ hpc = "done" => mem["out2"] = mem["out1"]
  /\ \A r \in rlog : \A w \in wlog :
        (r[2] = w[2] /\ r[3] = w[3]) => r[1] = w[1]

\* C7: for empty x and y (in CUDA memory) the grid has zero instances,
\* nothing is dispatched, loaded or stored, no error is raised and the
\* output is empty.
C7_EmptyNoOp ==
  (N = 0 /\ Len(y0) = 0 /\ OnCuda) =>
     /\ DOMAIN workers = {}
     /\ rlog = {} /\ wlog = {}
     /\ ~fault
     /\ hpc \notin {"assert_failed", "cuda_error"}
     /\ output # "none" => mem[output] = <<>>
     /\ Dispatched => (n_elements = 0 /\ grid(n_elements, BLOCK_SIZE) = 0)

C7_Witness ==
  /\ N = 0 /\ Len(y0) = 0
  /\ hpc = "done"
  /\ ret = "out2"
  /\ mem["out2"] = <<>>

\* The blocks of C8's example, N = 5 and P = 2.
ExampleChunks ==
  /\ grid(5, 2) = 3
  /\ ValidRange(0, 5, 2) = {0, 1}
  /\ ValidRange(1, 5, 2) = {2, 3}
  /\ ValidRange(2, 5, 2) = {4}

\* C8: no output location is ever stored twice; after a complete run every
\* output index i in [0, n) has been stored exactly once, by instance
\* i div P, and nothing else has been stored; the valid ranges of the
\* instances are pairwise disjoint and cover [0, n).
C8_WrittenOnce ==
  /\ \A a \in DOMAIN wcnt : wcnt[a] = 1
  /\ \A a \in wlog : a[2] = output /\ a[1] = a[3] \div BLOCK_SIZE
  /\ Synced =>
       /\ DOMAIN wcnt = {<<output, i>> : i \in 0..(n_elements - 1)}
       /\ \A i \in 0..(n_elements - 1) : <<i \div BLOCK_SIZE, output, i>> \in wlog
  /\ Dispatched =>
       /\ \A j, k \in DOMAIN workers :
             j # k => ValidRange(j, n_elements, BLOCK_SIZE)
                        \cap ValidRange(k, n_elements, BLOCK_SIZE) = {}
       /\ UNION {ValidRange(k, n_elements, BLOCK_SIZE) : k \in DOMAIN workers}
             = 0..(n_elements - 1)
  /\ ExampleChunks

C8_Witness ==
  /\ hpc = "done"
  /\ BLOCK_SIZE = 2
  /\ n_elements = 3
  /\ wcnt = [a \in {<<"out2", 0>>, <<"out2", 1>>, <<"out2", 2>>} |-> 1]

\* The timing cell's launch: N = 100000, BLOCK_SIZE = 1024.
HarnessGrid == grid(HARNESS_N, ADD_BLOCK_SIZE)
HarnessFull ==
  Cardinality({k \in 0..(HarnessGrid - 1) :
                 Cardinality(ValidRange(k, HARNESS_N, ADD_BLOCK_SIZE)) = ADD_BLOCK_SIZE})
HarnessPartial ==
  {Cardinality(ValidRange(k, HARNESS_N, ADD_BLOCK_SIZE)) : k \in 0..(HarnessGrid - 1)}
     \ {ADD_BLOCK_SIZE}
\* The number of offsets that pass the guard, over the first g instances.
RECURSIVE ValidCount(_, _, _)
ValidCount(g, n, BS) ==
  IF g = 0 THEN 0
  ELSE Cardinality(ValidRange(g - 1, n, BS)) + ValidCount(g - 1, n, BS)
HarnessValid == ValidCount(HarnessGrid, HARNESS_N, ADD_BLOCK_SIZE)

\* What every launch dispatches: ceil(n / P) instances for an output of
\* the length of x.
GridIsCeil ==
  Dispatched =>
     /\ n_elements = N
     /\ Len(mem[output]) = N
     /\ Cardinality(DOMAIN workers) = Ceil(n_elements, BLOCK_SIZE)

\* C9 (amended): the launcher dispatches exactly ceil(N/P) instances; for
\* N = 100000 and P = 1024 these are 98 instances, 97 full blocks and one
\* partial block with 672 valid elements, 100000 guarded offsets in all.
C9_GridSize ==
  /\ GridIsCeil
  /\ HarnessGrid = 98
  /\ HarnessFull = 97
  /\ HarnessPartial = {672}
  /\ HarnessValid = HARNESS_N

\* C9 (as claimed): ... for N = 100000 and P = 1024 these are 98 full
\* blocks plus one partial block with 928 valid elements.
C9_AsClaimed ==
  /\ GridIsCeil
  /\ HarnessFull = 98
  /\ HarnessPartial = {928}

C9_Witness ==
  /\ hpc = "done"
  /\ BLOCK_SIZE = ADD_BLOCK_SIZE
  /\ N = 3
  /\ Cardinality(DOMAIN workers) = 1
  /\ Cardinality(ValidRange(0, n_elements, BLOCK_SIZE)) = 3

\* C10: x and y always hold the values they had before the call; the
\* instances load only from x and y and store only to the output that add
\* allocated.
C10_InputsUnchanged ==
  /\ mem["x"] = x0
  /\ mem["y"] = y0
  /\ \A a \in rlog : a[2] \in {"x", "y"}
  /\ \A a \in wlog : a[2] = output /\ a[2] \notin {"x", "y"}

C10_Witness ==
  /\ hpc = "done"
  /\ N = 3
  /\ Cardinality(wlog) = 3
  /\ Cardinality(rlog) = 6


=============================================================================
